---- MODULE Spec2Model ----
(***************************************************************************)
(* Model of the SMART Tag API client (custom_components/smart_tag/api.py): *)
(* the token fields, login, refresh_access_token, get_students, get_rides, *)
(* the request layer _api_wrapper and the re-authentication wrapper        *)
(* _authed_api_wrapper.                                                    *)
(*                                                                         *)
(* A call is a coroutine.  It runs without interruption up to the point    *)
(* where its HTTP request is in flight (one action), and again from the    *)
(* arrival of the response on (one action).  Strings are sequences of      *)
(* one-character strings, so that the f-string of the Authorization header *)
(* and the percent-decoding of the cookie are computed, not assumed.       *)
(***************************************************************************)
EXTENDS Integers, Sequences, FiniteSets, TLC

\* Number of coroutines that may call into one client instance.
NProcs == 2
\* Longest JSON array of records a response body carries.
MaxRecords == 1

Procs == 1..NProcs

\* Python's None, and a key that a JSON object does not have.
None == <<"None">>
Missing == <<"Missing">>

----------------------------------------------------------------------------
(* Exceptions.  NoExc: nothing was raised.                                 *)
NoExc == "none"
SmartTagApiError == "SmartTagApiError"
SmartTagApiNetworkError == "SmartTagApiNetworkError"
SmartTagApiAuthError == "SmartTagApiAuthError"

\* issubclass(exc, SmartTagApiError)
IsSmartTagApiError(exc) ==
    exc \in {SmartTagApiError, SmartTagApiNetworkError, SmartTagApiAuthError}

\* issubclass(exc, aiohttp.ClientError) or exc is socket.gaierror
IsClientError(exc) ==
    exc \in {"ClientError", "ClientResponseError", "ContentTypeError", "gaierror"}

----------------------------------------------------------------------------
(* Inputs: the tokens the constructor is given and what the server sends.  *)
CtorAccessTokens == {None, <<"a", "0">>}
CtorRefreshTokens == {None, <<"r", "0">>}
\* "token" values of login and refresh response bodies
ServerTokens == {<<"t", "1">>, <<"t", "2">>}
\* raw (percent-encoded) values of the refreshToken cookie
CookieValues == {<<"r", "1">>, <<"r", "%", "2", "F">>}

Statuses == {200, 400, 401, 403, 404, 500}

\* What awaiting session.request() under the 10 s timeout ends with.
Transports == {"response", "TimeoutError", "ClientError", "gaierror", "RuntimeError"}

StudentKeys == {"campus", "externalId", "fullName", "id", "grade"}
RideKeys == {"embarkationDate", "embarkationLatitude", "embarkationLongtitude",
             "disembarkationDate", "disembarkationLatitude",
             "disembarkationLongtitude", "activityId", "busName", "driverName",
             "friendlyRouteDisplay", "shift", "routeId"}

\* Sequences over S of length at most n
SeqUpTo(S, n) == UNION {[1..k -> S] : k \in 0..n}

\* Bodies of login/refresh responses: not JSON, or an object with or without "token".
TokenBodies ==
    {[json |-> FALSE, token |-> Missing]}
    \cup {[json |-> TRUE, token |-> t] : t \in ServerTokens \cup {Missing}}

\* Bodies of all-students responses: not JSON, or an array of objects (their key sets).
StudentBodies ==
    {[json |-> FALSE, hasData |-> FALSE, records |-> <<>>]}
    \cup {[json |-> TRUE, hasData |-> FALSE, records |-> r] :
            r \in SeqUpTo({StudentKeys, StudentKeys \ {"grade"}}, MaxRecords)}

\* Bodies of riding-activity responses: not JSON, an object without "data", or
\* an object whose "data" is an array of objects.
RideBodies ==
    {[json |-> FALSE, hasData |-> FALSE, records |-> <<>>],
     [json |-> TRUE, hasData |-> FALSE, records |-> <<>>]}
    \cup {[json |-> TRUE, hasData |-> TRUE, records |-> r] :
            r \in SeqUpTo({RideKeys, RideKeys \ {"routeId"}}, MaxRecords)}

\* Every outcome of one request whose response bodies are drawn from B.
Outcomes(B, C) ==
    {[transport |-> "response", status |-> s, body |-> b, cookie |-> c] :
        s \in Statuses, b \in B, c \in C}
    \cup {[transport |-> t, status |-> 0, body |-> CHOOSE b \in B : ~b.json,
           cookie |-> None] : t \in Transports \ {"response"}}

TokenOutcomes == Outcomes(TokenBodies, CookieValues \cup {None})
StudentOutcomes == Outcomes(StudentBodies, {None})
RideOutcomes == Outcomes(RideBodies, {None})

----------------------------------------------------------------------------
(* Pure parts of the client.                                               *)

\* aiohttp.ClientResponse.ok
ResponseOk(status) == status < 400

\* aiohttp.ClientResponse.raise_for_status()
RaiseForStatus(status) == IF status >= 400 THEN "ClientResponseError" ELSE NoExc

\* _raise_response_error: the exception it raises
RaiseResponseError(status) ==
    IF status \in {401, 403} THEN SmartTagApiAuthError
    ELSE IF status \notin {400, 404} THEN RaiseForStatus(status)
    ELSE NoExc

\* The body of _api_wrapper's try block: what it raises (NoExc: it returns the response).
TryRequest(o) ==
    IF o.transport # "response" THEN o.transport ELSE RaiseResponseError(o.status)

\* The except clauses of _api_wrapper, in their order.
ExceptClauses(exc) ==
    IF exc = NoExc THEN NoExc
    ELSE IF exc = "TimeoutError" THEN SmartTagApiNetworkError
    ELSE IF IsClientError(exc) THEN SmartTagApiNetworkError
    ELSE SmartTagApiError

\* _api_wrapper: what the call raises for outcome o of its request
ApiWrapper(o) == ExceptClauses(TryRequest(o))

\* urllib.parse.unquote on the escapes the cookie values use
HexPairs == {<<"2", "F">>, <<"2", "5">>, <<"3", "1">>}
HexChar(pair) ==
    CASE pair = <<"2", "F">> -> "/"
      [] pair = <<"2", "5">> -> "%"
      [] pair = <<"3", "1">> -> "1"

RECURSIVE Unquote(_)
Unquote(s) ==
    IF s = <<>> THEN <<>>
    ELSE IF Len(s) >= 3 /\ s[1] = "%" /\ <<s[2], s[3]>> \in HexPairs
         THEN <<HexChar(<<s[2], s[3]>>)>> \o Unquote(SubSeq(s, 4, Len(s)))
    ELSE <<s[1]>> \o Unquote(Tail(s))

\* BearerHeaders without the scheme
BearerHeaders_NoScheme(access) == access

\* f"Bearer {self.access_token}" if self.access_token is not None else None
BearerHeaders(access) ==
    IF access # None THEN <<"B", "e", "a", "r", "e", "r", " ">> \o access ELSE None

\* response.json(), the cookie and json["token"]: lines 68-75 and 88-95.
\* The refresh token is assigned before json["token"] is read.
StoreTokens(o, access, refresh) ==
    IF ~o.body.json
    THEN [exc |-> "ContentTypeError", access |-> access, refresh |-> refresh]
    ELSE LET r == IF o.cookie # None THEN Unquote(o.cookie) ELSE refresh
         IN  IF o.body.token = Missing
             THEN [exc |-> "KeyError", access |-> access, refresh |-> r]
             ELSE [exc |-> NoExc, access |-> o.body.token, refresh |-> r]

\* LoginFinish without the check of status 400
LoginFinish_No400Check(o, access, refresh) ==
    IF ApiWrapper(o) # NoExc
    THEN [exc |-> ApiWrapper(o), access |-> access, refresh |-> refresh]
    ELSE StoreTokens(o, access, refresh)

\* login from the response on (lines 62-75), the tokens being (access, refresh)
LoginFinish(o, access, refresh) ==
    IF ApiWrapper(o) # NoExc
    THEN [exc |-> ApiWrapper(o), access |-> access, refresh |-> refresh]
    ELSE IF o.status = 400
    THEN [exc |-> SmartTagApiAuthError, access |-> access, refresh |-> refresh]
    ELSE StoreTokens(o, access, refresh)

\* RefreshPrecondition with the two tests joined the wrong way
RefreshPrecondition_Either(access, refresh) == access # None \/ refresh # None

\* refresh_access_token's precondition (line 79)
RefreshPrecondition(access, refresh) == access # None /\ refresh # None

\* RefreshFinish that stores the cookie as it is, without unquote
RefreshFinish_NoUnquote(o, access, refresh) ==
    IF ApiWrapper(o) # NoExc
    THEN [exc |-> ApiWrapper(o), access |-> access, refresh |-> refresh]
    ELSE IF ~ResponseOk(o.status)
    THEN [exc |-> SmartTagApiAuthError, access |-> access, refresh |-> refresh]
    ELSE IF o.cookie # None /\ o.body.json /\ o.body.token # Missing
    THEN [exc |-> NoExc, access |-> o.body.token, refresh |-> o.cookie]
    ELSE StoreTokens(o, access, refresh)

\* RefreshFinish that tests response.ok only after it has stored the tokens
RefreshFinish_StoreFirst(o, access, refresh) ==
    IF ApiWrapper(o) # NoExc
    THEN [exc |-> ApiWrapper(o), access |-> access, refresh |-> refresh]
    ELSE LET r == StoreTokens(o, access, refresh)
         IN  IF r.exc = NoExc /\ ~ResponseOk(o.status)
             THEN [r EXCEPT !.exc = SmartTagApiAuthError]
             ELSE r

\* refresh_access_token from the response on (lines 83-95)
RefreshFinish(o, access, refresh) ==
    IF ApiWrapper(o) # NoExc
    THEN [exc |-> ApiWrapper(o), access |-> access, refresh |-> refresh]
    ELSE IF ~ResponseOk(o.status)
    THEN [exc |-> SmartTagApiAuthError, access |-> access, refresh |-> refresh]
    ELSE StoreTokens(o, access, refresh)

\* get_students / get_rides precondition (lines 99, 108)
AuthedPrecondition(access) == access # None

\* Student.from_dict / Ride.from_dict on every record of the array
FromDicts(records, keys) ==
    IF \A i \in DOMAIN records : keys \subseteq records[i] THEN NoExc ELSE "KeyError"

\* get_students after the response (line 104)
ParseStudents(body) ==
    IF ~body.json THEN "ContentTypeError" ELSE FromDicts(body.records, StudentKeys)

\* get_rides after the response (lines 115-117)
ParseRides(body) ==
    IF ~body.json THEN "ContentTypeError"
    ELSE IF ~body.hasData THEN "KeyError"
    ELSE FromDicts(body.records, RideKeys)

ParseBody(op, body) ==
    IF op = "get_students" THEN ParseStudents(body) ELSE ParseRides(body)

\* AuthedCatches that catches every exception, around the retry as well
AuthedCatches_Everything(pc, exc) == exc # NoExc

\* AuthedCatches with `except SmartTagApiError`, the base class
AuthedCatches_BaseClass(pc, exc) == pc = "await_first" /\ IsSmartTagApiError(exc)

\* The except clause of _authed_api_wrapper: only the first _api_wrapper call is
\* inside the try, and only SmartTagApiAuthError is caught.
AuthedCatches(pc, exc) == pc = "await_first" /\ exc = SmartTagApiAuthError

Endpoint(op) ==
    CASE op = "login" -> "user/login"
      [] op = "refresh_access_token" -> "user/refresh"
      [] op = "get_students" -> "parent/all-students"
      [] op = "get_rides" -> "student/riding-activity"

\* One call of self._session.request
Request(path, headers, data) == [path |-> path, headers |-> headers, data |-> data]

----------------------------------------------------------------------------
(* State.                                                                  *)
VARIABLES
    access_token,   \* self.access_token
    refresh_token,  \* self.refresh_token
    call,           \* per coroutine: the call it is in and what that call has done
    lastLogin,      \* history: the token of the last successful login, None once
                    \* a later login or refresh has started
    serialized,     \* the caller starts a call only when no other call is running
    flowPc,         \* async_step_choose_times: idle, await_rides, form, raised
    rides,          \* its local rides
    routes,         \* its local routes: the dict, as the sequence of its items
    avg_routes,     \* its local avg_routes
    errors_base,    \* _errors.get("base"), "none" when the key is not set
    api_client,     \* SmartTagConfigFlow._api_client: 0 for None, else the
                    \* ordinal of the SmartTagApiClient the flow has made
    shown           \* the form the steps user and choose_student have shown
                    \* last: its step_id and errors["base"]

flowVars == <<flowPc, rides, routes, avg_routes, errors_base, api_client, shown>>
clientVars == <<access_token, refresh_token, call, lastLogin, serialized>>
vars == <<access_token, refresh_token, call, lastLogin, serialized,
          flowPc, rides, routes, avg_routes, errors_base, api_client, shown>>

\* What no method of the client changes.
others == <<serialized, flowVars>>

Tokens == [access |-> access_token, refresh |-> refresh_token]

\* A coroutine that is in no call.
\*   op        the method called
\*   pc        idle, await_login / await_refresh / await_first / await_retry
\*             (the request named is in flight), done
\*   nested    refresh_access_token was called by _authed_api_wrapper
\*   reqs      the requests the call has issued, in order
\*   resps     the outcomes of those requests, in order
\*   wrapped   what _api_wrapper raised for each outcome
\*   pre       the tokens when the call started
\*   exc       what the call raised to its caller (NoExc: it returned)
\*   refreshed outcome of the refresh_access_token the call made: none, ok, failed
\*   sawLogin  lastLogin when the call started
IdleCall ==
    [op |-> "none", pc |-> "idle", nested |-> FALSE, reqs |-> <<>>, resps |-> <<>>,
     wrapped |-> <<>>, pre |-> [access |-> None, refresh |-> None], exc |-> NoExc,
     refreshed |-> "none", sawLogin |-> None]

AuthedOps == {"get_students", "get_rides"}

\* The client after its construction.
InitClient ==
    /\ access_token \in CtorAccessTokens
    /\ refresh_token \in CtorRefreshTokens
    /\ call = [p \in Procs |-> IdleCall]
    /\ lastLogin = None

\* async_show_form(step_id=..., errors=...), and no form yet
Form(step_id, base) == [step_id |-> step_id, base |-> base]
NoForm == Form("none", "none")

\* The configuration flow before its step choose_times.
InitFlow ==
    /\ flowPc = "idle"
    /\ rides = <<>>
    /\ routes = <<>>
    /\ avg_routes = <<>>
    /\ errors_base = "none"
    /\ api_client = 0
    /\ shown = NoForm

\* A caller that serializes its calls on the client instance.
Init == InitClient /\ serialized = TRUE /\ InitFlow

\* A caller that serializes its calls, or one that does not.
InitConc == InitClient /\ serialized \in BOOLEAN /\ InitFlow

\* The outcomes among S that the runs explore.  The runs of a caller that does
\* not serialize are explored against a server whose every answer is a success
\* with a well-formed body.
WellFormed(o) ==
    /\ o.transport = "response"
    /\ o.status = 200
    /\ o.body.json
    /\ "token" \in DOMAIN o.body => o.body.token # Missing
    /\ "records" \in DOMAIN o.body =>
          \/ ParseStudents(o.body) = NoExc
          \/ ParseRides(o.body) = NoExc
Answers(S) == IF serialized THEN S ELSE {o \in S : WellFormed(o)}

\* The calls that a caller that does not serialize lets run at the same time:
\* a login and a get_students / get_rides.
Overlap(a, b) ==
    \/ a = "login" /\ b \in {"get_students", "get_rides"}
    \/ b = "login" /\ a \in {"get_students", "get_rides"}

\* Coroutine p may start a call of op: it is in none, and a serializing caller
\* waits until no other call is running.
CanStart(p, op) ==
    /\ call[p].pc = "idle"
    /\ \A q \in Procs \ {p} :
         \/ call[q].pc = "idle"
         \/ ~serialized /\ Overlap(op, call[q].op)

\* The call record of a call of op that starts now.
NewCall(op) ==
    [IdleCall EXCEPT !.op = op, !.pre = Tokens, !.sawLogin = lastLogin]

\* The record after the response o to the request in flight has been handled by
\* _api_wrapper.
Received(c, o) ==
    [c EXCEPT !.resps = Append(@, o), !.wrapped = Append(@, ApiWrapper(o))]

\* The call ends: it raises exc, or returns when exc is NoExc.
Finished(c, exc) == [c EXCEPT !.pc = "done", !.exc = exc]

\* refresh_access_token up to its request (lines 79-83), called in record c.
RefreshBegin(c) ==
    IF ~RefreshPrecondition(access_token, refresh_token)
    THEN Finished([c EXCEPT !.refreshed = "failed"], SmartTagApiAuthError)
    ELSE [c EXCEPT !.pc = "await_refresh",
                   !.reqs = Append(@, Request(Endpoint("refresh_access_token"), None,
                                              <<access_token, refresh_token>>))]

\* login up to its request (lines 59-64)
LoginStart(p) ==
    /\ CanStart(p, "login")
    /\ access_token' = None
    /\ refresh_token' = None
    /\ lastLogin' = None
    /\ call' = [call EXCEPT ![p] =
                    [NewCall("login") EXCEPT
                        !.pc = "await_login",
                        !.reqs = <<Request(Endpoint("login"), None, <<>>)>>]]
    /\ UNCHANGED others

\* login from the response on (lines 62-75)
LoginResponse(p) ==
    /\ call[p].pc = "await_login"
    /\ \E o \in Answers(TokenOutcomes) :
         LET r == LoginFinish(o, access_token, refresh_token)
         IN  /\ access_token' = r.access
             /\ refresh_token' = r.refresh
             /\ lastLogin' = IF r.exc = NoExc THEN o.body.token ELSE lastLogin
             /\ call' = [call EXCEPT ![p] = Finished(Received(@, o), r.exc)]
    /\ UNCHANGED others

\* refresh_access_token called by the client's user, up to its request
RefreshStart(p) ==
    /\ CanStart(p, "refresh_access_token")
    /\ lastLogin' = None
    /\ call' = [call EXCEPT ![p] = RefreshBegin(NewCall("refresh_access_token"))]
    /\ UNCHANGED <<access_token, refresh_token, others>>

\* refresh_access_token from the response on (lines 83-95) and, when
\* _authed_api_wrapper called it, the retry of the request (lines 170-177)
RefreshResponse(p) ==
    /\ call[p].pc = "await_refresh"
    /\ \E o \in Answers(TokenOutcomes) :
         LET r == RefreshFinish(o, access_token, refresh_token)
             c == Received(call[p], o)
         IN  /\ access_token' = r.access
             /\ refresh_token' = r.refresh
             /\ call' = [call EXCEPT ![p] =
                  IF r.exc # NoExc
                  THEN Finished([c EXCEPT !.refreshed = "failed"], r.exc)
                  ELSE IF c.nested
                  THEN [c EXCEPT !.refreshed = "ok", !.pc = "await_retry",
                                 !.reqs = Append(@, Request(Endpoint(c.op),
                                                    BearerHeaders(r.access), <<>>))]
                  ELSE Finished([c EXCEPT !.refreshed = "ok"], NoExc)]
    /\ UNCHANGED <<lastLogin, others>>

\* get_students / get_rides up to the first request (lines 99-102, 108-114, 158-165)
AuthedStart(p) ==
    /\ \E op \in AuthedOps :
         /\ CanStart(p, op)
         /\ call' = [call EXCEPT ![p] =
            IF ~AuthedPrecondition(access_token)
            THEN Finished(NewCall(op), SmartTagApiAuthError)
            ELSE [NewCall(op) EXCEPT
                    !.pc = "await_first",
                    !.reqs = <<Request(Endpoint(op), BearerHeaders(access_token), <<>>)>>]]
    /\ UNCHANGED <<access_token, refresh_token, lastLogin, others>>

\* get_students / get_rides from a response to the original request on:
\* _authed_api_wrapper's except clause and call of refresh_access_token
\* (lines 165-168), or the parse of the body (lines 104, 115-117)
AuthedResponse(p) ==
    /\ call[p].pc \in {"await_first", "await_retry"}
    /\ \E o \in Answers(IF call[p].op = "get_students" THEN StudentOutcomes
                       ELSE RideOutcomes) :
         LET exc == ApiWrapper(o)
             c == Received(call[p], o)
         IN  IF AuthedCatches(call[p].pc, exc)
             THEN /\ call' = [call EXCEPT ![p] = RefreshBegin([c EXCEPT !.nested = TRUE])]
                  /\ lastLogin' = None
             ELSE /\ call' = [call EXCEPT ![p] =
                        Finished(c, IF exc # NoExc THEN exc ELSE ParseBody(c.op, o.body))]
                  /\ UNCHANGED lastLogin
    /\ UNCHANGED <<access_token, refresh_token, others>>

\* The caller has taken the result; the coroutine is gone.
Return(p) ==
    /\ call[p].pc = "done"
    /\ call' = [call EXCEPT ![p] = IdleCall]
    /\ UNCHANGED <<access_token, refresh_token, lastLogin, others>>

Next ==
    \E p \in Procs :
        \/ LoginStart(p)
        \/ LoginResponse(p)
        \/ RefreshStart(p)
        \/ RefreshResponse(p)
        \/ AuthedStart(p)
        \/ AuthedResponse(p)
        \/ Return(p)

\* The calls on the client instance are serialized.
Spec == Init /\ [][Next]_vars

\* The calls may also interleave at their await points.
SpecConc == InitConc /\ [][Next]_vars

----------------------------------------------------------------------------
(* The polling-window aggregator of the configuration flow.                *)
(* A datetime is the number of seconds since midnight of a reference day,  *)
(* a time of day the number of seconds since midnight, a float the exact   *)
(* fraction [num, den] in lowest terms (rounding is not modelled).         *)

MaxRides == 3

SecondsPerMinute == 60
SecondsPerDay == 86400
EmbarkMarginMinutes == 5
DebarkMarginMinutes == 10

\* datetime.time(h, m, s), and the same time of day on a later day
Hms(h, m, s) == (h * 60 + m) * SecondsPerMinute + s
DaysLater(days, t) == days * SecondsPerDay + t

\* datetime.time()
TimeOf(dt) == dt % SecondsPerDay
\* timedelta(minutes=m)
Minutes(m) == m * SecondsPerMinute
\* timedelta.seconds: a timedelta is normalised to days and 0 <= seconds < 86400
TimedeltaSeconds(td) == td % SecondsPerDay

Min2(a, b) == IF b < a THEN b ELSE a
Max2(a, b) == IF b > a THEN b ELSE a
Abs(n) == IF n < 0 THEN -n ELSE n

RECURSIVE GCD(_, _)
GCD(a, b) == IF b = 0 THEN a ELSE GCD(b, a % b)

\* The fraction num/den, den > 0, in lowest terms.
Frac(num, den) ==
    LET g == GCD(Abs(num), den)
    IN  [num |-> num \div g, den |-> den \div g]
FracOfInt(n) == Frac(n, 1)
FracAdd(x, y) == Frac(x.num * y.den + y.num * x.den, x.den * y.den)
FracSub(x, y) == Frac(x.num * y.den - y.num * x.den, x.den * y.den)
FracDivInt(x, n) == Frac(x.num, x.den * n)

\* The rides get_rides can return: two routes, one of them under two names;
\* rides in the morning, around midnight, and one lasting more than a day.
RouteSamples ==
    { [route_id |-> 1, route_name |-> "A"],
      [route_id |-> 1, route_name |-> "B"],
      [route_id |-> 2, route_name |-> "C"] }
TimeSamples ==
    { [start |-> Hms(8, 0, 0),   end |-> Hms(8, 20, 0)],
      [start |-> Hms(8, 10, 0),  end |-> Hms(8, 25, 0)],
      [start |-> Hms(23, 40, 0), end |-> Hms(23, 55, 0)],
      [start |-> Hms(23, 57, 0), end |-> DaysLater(1, Hms(0, 12, 0))],
      [start |-> Hms(8, 0, 0),   end |-> DaysLater(1, Hms(8, 10, 0))] }
RideSamples ==
    { [route_id |-> r.route_id, route_name |-> r.route_name,
       start |-> t.start, end |-> t.end] : r \in RouteSamples, t \in TimeSamples }
RideLists == SeqUpTo(RideSamples, MaxRides)

\* What the awaited get_rides gives the step: a list, or an exception.
GetRidesOutcomes ==
    [exc : {NoExc}, rides : RideLists]
    \cup [exc : {SmartTagApiAuthError, SmartTagApiNetworkError, SmartTagApiError,
                 "KeyError", "ContentTypeError"},
          rides : {<<>>}]

\* The body of the loop of average_route_polling_data, where embark_end_max
\* forgets the margin.
AverageStep_NoMargin(acc, i, ride) ==
    [embark_start_min |-> Min2(acc.embark_start_min, TimeOf(ride.start)),
     embark_end_max |-> Max2(acc.embark_end_max, TimeOf(ride.start)),
     debark_end_max |->
        Max2(acc.debark_end_max, TimeOf(ride.end + Minutes(DebarkMarginMinutes))),
     length_secs |->
        FracAdd(acc.length_secs,
                FracDivInt(FracSub(FracOfInt(TimedeltaSeconds(ride.end - ride.start)),
                                   acc.length_secs),
                           i + 1))]

\* The body of the loop, where embark_start_min is the ride's start.
AverageStep_LastStart(acc, i, ride) ==
    [embark_start_min |-> TimeOf(ride.start),
     embark_end_max |->
        Max2(acc.embark_end_max, TimeOf(ride.start + Minutes(EmbarkMarginMinutes))),
     debark_end_max |->
        Max2(acc.debark_end_max, TimeOf(ride.end + Minutes(DebarkMarginMinutes))),
     length_secs |->
        FracAdd(acc.length_secs,
                FracDivInt(FracSub(FracOfInt(TimedeltaSeconds(ride.end - ride.start)),
                                   acc.length_secs),
                           i + 1))]

\* The body of the loop of average_route_polling_data; i counts from 0.
AverageStep(acc, i, ride) ==
    [embark_start_min |-> Min2(acc.embark_start_min, TimeOf(ride.start)),
     embark_end_max |->
        Max2(acc.embark_end_max, TimeOf(ride.start + Minutes(EmbarkMarginMinutes))),
     debark_end_max |->
        Max2(acc.debark_end_max, TimeOf(ride.end + Minutes(DebarkMarginMinutes))),
     length_secs |->
        FracAdd(acc.length_secs,
                FracDivInt(FracSub(FracOfInt(TimedeltaSeconds(ride.end - ride.start)),
                                   acc.length_secs),
                           i + 1))]

\* The values the loop starts from.
AverageStart ==
    [embark_start_min |-> Hms(23, 59, 59),
     embark_end_max |-> Hms(0, 0, 0),
     debark_end_max |-> Hms(0, 0, 0),
     length_secs |-> FracOfInt(0)]

\* The loop, from the ride of index i on.
RECURSIVE AverageLoop(_, _, _)
AverageLoop(data, i, acc) ==
    IF i = Len(data) THEN acc
    ELSE AverageLoop(data, i + 1, AverageStep(acc, i, data[i + 1]))

\* average_route_polling_data(data), data not empty
average_route_polling_data(data) ==
    LET acc == AverageLoop(data, 0, AverageStart)
    IN  [embark_start |-> acc.embark_start_min,
         embark_end |-> acc.embark_end_max,
         length |-> FracDivInt(acc.length_secs, SecondsPerMinute),
         debark_end |-> acc.debark_end_max,
         id |-> data[1].route_id,
         name |-> data[1].route_name]

\* The body of the grouping loop, where a known route keeps its last ride only.
GroupStep_Overwrite(rts, ride) ==
    IF \E k \in DOMAIN rts : rts[k].key = ride.route_id
    THEN [k \in DOMAIN rts |->
            IF rts[k].key = ride.route_id
            THEN [rts[k] EXCEPT !.value = <<ride>>]
            ELSE rts[k]]
    ELSE Append(rts, [key |-> ride.route_id, value |-> <<ride>>])

\* The body of the grouping loop of async_step_choose_times; the dict is the
\* sequence of its items in insertion order.
GroupStep(rts, ride) ==
    IF \E k \in DOMAIN rts : rts[k].key = ride.route_id
    THEN [k \in DOMAIN rts |->
            IF rts[k].key = ride.route_id
            THEN [rts[k] EXCEPT !.value = Append(@, ride)]
            ELSE rts[k]]
    ELSE Append(rts, [key |-> ride.route_id, value |-> <<ride>>])

RECURSIVE GroupLoop(_, _, _)
GroupLoop(rs, i, rts) ==
    IF i = Len(rs) THEN rts
    ELSE GroupLoop(rs, i + 1, GroupStep(rts, rs[i + 1]))

\* routes, as the grouping loop leaves it
GroupRides(rs) == GroupLoop(rs, 0, <<>>)

\* [average_route_polling_data(rides) for rides in routes.values()]
AverageRoutes(rts) == [k \in DOMAIN rts |-> average_route_polling_data(rts[k].value)]

\* The key the except clauses of the step put in _errors; "raise" for an
\* exception none of them catches.
ErrorsBase(exc) ==
    IF exc = NoExc THEN "none"
    ELSE IF exc = SmartTagApiAuthError THEN "auth"
    ELSE IF exc = SmartTagApiNetworkError THEN "connection"
    ELSE IF exc = SmartTagApiError THEN "unknown"
    ELSE "raise"

\* async_step_choose_times is called, for the first time or with the user's
\* input, and runs up to its await of get_rides.
ChooseTimesStart ==
    /\ flowPc \in {"idle", "form"}
    /\ \E ready \in (IF flowPc = "idle" THEN BOOLEAN ELSE {TRUE}) :
          flowPc' = IF ready THEN "await_rides" ELSE "raised"
    /\ rides' = <<>>
    /\ routes' = <<>>
    /\ avg_routes' = <<>>
    /\ errors_base' = "none"
    /\ UNCHANGED <<api_client, shown>>
    /\ UNCHANGED clientVars

\* get_rides returns or raises, and the step runs to its end.
ChooseTimesRides ==
    /\ flowPc = "await_rides"
    /\ \E o \in GetRidesOutcomes :
          IF ErrorsBase(o.exc) = "raise"
          THEN /\ flowPc' = "raised"
               /\ UNCHANGED <<rides, routes, avg_routes, errors_base>>
          ELSE /\ rides' = o.rides
               /\ errors_base' = ErrorsBase(o.exc)
               /\ routes' = GroupRides(o.rides)
               /\ avg_routes' = AverageRoutes(GroupRides(o.rides))
               /\ flowPc' = "form"
    /\ UNCHANGED <<api_client, shown>>
    /\ UNCHANGED clientVars

NextAgg ==
    \/ ChooseTimesStart
    \/ ChooseTimesRides

\* The flow at its step choose_times, the client logged in by the step user.
InitAgg ==
    /\ access_token = <<"t", "1">>
    /\ refresh_token = <<"r", "1">>
    /\ call = [p \in Procs |-> IdleCall]
    /\ lastLogin = None
    /\ serialized = TRUE
    /\ flowPc = "idle"
    /\ rides = <<>>
    /\ routes = <<>>
    /\ avg_routes = <<>>
    /\ errors_base = "none"
    /\ api_client = 1
    /\ shown = Form("choose_student", "none")

SpecAgg == InitAgg /\ [][NextAgg]_vars

----------------------------------------------------------------------------
(* The steps user and choose_student of the configuration flow.  The flow  *)
(* awaits the client's calls in one coroutine; the client's own actions    *)
(* carry the call from its request to its end, and the step goes on when   *)
(* the call is done.                                                       *)

\* The coroutine the flow's steps run in.
FlowProc == CHOOSE p \in Procs : TRUE

\* if self._api_client is None: self._api_client = SmartTagApiClient(...)
EnsureClient(n) == IF n = 0 THEN 1 ELSE n

\* The except clauses of async_step_user with the base class tested first.
UserStepErrors_BaseFirst(exc) ==
    IF exc = NoExc THEN "none"
    ELSE IF IsSmartTagApiError(exc) THEN "unknown"
    ELSE "raise"

\* The key the except clauses of async_step_user put in _errors; "none" for
\* the else clause, "raise" for an exception none of them catches.
UserStepErrors(exc) ==
    IF exc = NoExc THEN "none"
    ELSE IF exc = SmartTagApiAuthError THEN "auth"
    ELSE IF exc = SmartTagApiNetworkError THEN "connection"
    ELSE IF exc = SmartTagApiError THEN "unknown"
    ELSE "raise"

\* The same for the except clauses of async_step_choose_student.
StudentStepErrors(exc) ==
    IF exc = NoExc THEN "none"
    ELSE IF exc = SmartTagApiAuthError THEN "auth"
    ELSE IF exc = SmartTagApiNetworkError THEN "connection"
    ELSE IF exc = SmartTagApiError THEN "unknown"
    ELSE "raise"

\* The call record of login at its request (api.py lines 59-64).
LoginCall ==
    [NewCall("login") EXCEPT
        !.pc = "await_login",
        !.reqs = <<Request(Endpoint("login"), None, <<>>)>>]

\* The call record of get_students at its request (api.py lines 99-102).
StudentsCall ==
    [NewCall("get_students") EXCEPT
        !.pc = "await_first",
        !.reqs = <<Request(Endpoint("get_students"), BearerHeaders(access_token), <<>>)>>]

\* async_step_user(None): the flow starts and shows the credentials form.
FlowUserShow ==
    /\ flowPc = "idle"
    /\ api_client' = EnsureClient(api_client)
    /\ shown' = Form("user", "none")
    /\ flowPc' = "form"
    /\ UNCHANGED <<rides, routes, avg_routes, errors_base>>
    /\ UNCHANGED clientVars

\* async_step_user(user_input) up to the request of login: the user submits
\* the credentials form, which is still open after a step that raised.
FlowUserSubmit ==
    /\ flowPc \in {"form", "raised"}
    /\ shown.step_id = "user"
    /\ call[FlowProc].pc = "idle"
    /\ api_client' = EnsureClient(api_client)
    /\ access_token' = None
    /\ refresh_token' = None
    /\ lastLogin' = None
    /\ call' = [call EXCEPT ![FlowProc] = LoginCall]
    /\ flowPc' = "await_login"
    /\ UNCHANGED <<serialized, rides, routes, avg_routes, errors_base, shown>>

\* async_step_user from the end of login on: an except clause and the form
\* again, or async_step_choose_student() up to the request of get_students.
FlowUserLoginDone ==
    /\ flowPc = "await_login"
    /\ call[FlowProc].pc = "done"
    /\ LET key == UserStepErrors(call[FlowProc].exc)
       IN  IF key = "raise"
           THEN /\ flowPc' = "raised"
                /\ call' = [call EXCEPT ![FlowProc] = IdleCall]
                /\ UNCHANGED shown
           ELSE IF key # "none"
           THEN /\ shown' = Form("user", key)
                /\ flowPc' = "form"
                /\ call' = [call EXCEPT ![FlowProc] = IdleCall]
           ELSE IF api_client = 0
           THEN /\ flowPc' = "raised"
                /\ call' = [call EXCEPT ![FlowProc] = IdleCall]
                /\ UNCHANGED shown
           ELSE IF ~AuthedPrecondition(access_token)
           THEN /\ shown' = Form("choose_student", StudentStepErrors(SmartTagApiAuthError))
                /\ flowPc' = "form"
                /\ call' = [call EXCEPT ![FlowProc] = IdleCall]
           ELSE /\ flowPc' = "await_students"
                /\ call' = [call EXCEPT ![FlowProc] = StudentsCall]
                /\ UNCHANGED shown
    /\ UNCHANGED <<access_token, refresh_token, lastLogin, serialized>>
    /\ UNCHANGED <<rides, routes, avg_routes, errors_base, api_client>>

\* async_step_choose_student from the end of get_students on.
FlowStudentsDone ==
    /\ flowPc = "await_students"
    /\ call[FlowProc].pc = "done"
    /\ LET key == StudentStepErrors(call[FlowProc].exc)
       IN  IF key = "raise"
           THEN /\ flowPc' = "raised"
                /\ UNCHANGED shown
           ELSE /\ shown' = Form("choose_student", key)
                /\ flowPc' = "form"
    /\ call' = [call EXCEPT ![FlowProc] = IdleCall]
    /\ UNCHANGED <<access_token, refresh_token, lastLogin, serialized>>
    /\ UNCHANGED <<rides, routes, avg_routes, errors_base, api_client>>

NextConfig ==
    \/ FlowUserShow
    \/ FlowUserSubmit
    \/ LoginResponse(FlowProc)
    \/ FlowUserLoginDone
    \/ AuthedResponse(FlowProc)
    \/ FlowStudentsDone

\* The flow as Home Assistant starts it: no client yet.
InitConfig ==
    /\ access_token = None
    /\ refresh_token = None
    /\ call = [p \in Procs |-> IdleCall]
    /\ lastLogin = None
    /\ serialized = TRUE
    /\ InitFlow

SpecConfig == InitConfig /\ [][NextConfig]_vars

----------------------------------------------------------------------------
(* Vocabulary of the properties.                                           *)

Bearer(token) == <<"B", "e", "a", "r", "e", "r", " ">> \o token

\* The paths of the requests a call has issued, in order.
Paths(c) == [i \in DOMAIN c.reqs |-> c.reqs[i].path]

\* How many of the call's requests went to path.
Sent(c, path) == Cardinality({i \in DOMAIN c.reqs : c.reqs[i].path = path})

\* The i-th request of the call got a response with status 401 or 403.
Rejected(c, i) ==
    /\ i \in DOMAIN c.resps
    /\ c.resps[i].transport = "response"
    /\ c.resps[i].status \in {401, 403}

\* The i-th request of the call got a success response with a body the
\* operation can parse.
Succeeded(c, i) ==
    /\ i \in DOMAIN c.resps
    /\ c.resps[i].transport = "response"
    /\ c.resps[i].status = 200
    /\ ParseBody(c.op, c.resps[i].body) = NoExc

IsAuthed(c) == c.op \in AuthedOps

----------------------------------------------------------------------------
(* C1: a get_students / get_rides call whose first response is 401 or 403  *)
(* and whose refresh does not fail has issued, when it ends, exactly three *)
(* requests (original, refresh, retry), the retry with                     *)
(* "Authorization: Bearer <token of the refresh response>", and it returns *)
(* when the retry gets a success response.                                 *)
C1_RefreshThenRetry ==
    \A p \in Procs :
        LET c == call[p]
        IN  (IsAuthed(c) /\ c.pc = "done" /\ Rejected(c, 1) /\ c.refreshed # "failed")
            => /\ Paths(c) = <<Endpoint(c.op), "user/refresh", Endpoint(c.op)>>
               /\ c.reqs[3].headers = Bearer(c.resps[2].body.token)
               /\ (Succeeded(c, 3) => c.exc = NoExc)

(* C2: whichever request it is, a response with status 401 or 403 makes    *)
(* _api_wrapper raise SmartTagApiAuthError.                                *)
C2_RejectedIsAuthError ==
    \A p \in Procs :
        \A i \in DOMAIN call[p].resps :
            Rejected(call[p], i) => call[p].wrapped[i] = SmartTagApiAuthError

(* C3: a get_students / get_rides call whose first response is 401 or 403  *)
(* and whose refresh fails (its precondition does, the client holding no   *)
(* refresh token, or the refresh request gets a non-success response) ends *)
(* with SmartTagApiAuthError and has sent the original request once.       *)
C3_RefreshFailurePropagates ==
    \A p \in Procs :
        LET c == call[p]
        IN  (/\ IsAuthed(c) /\ c.pc = "done" /\ Rejected(c, 1)
             /\ \/ c.pre.refresh = None
                \/ /\ Len(c.resps) >= 2
                   /\ c.resps[2].transport = "response"
                   /\ c.resps[2].status >= 400)
            => /\ c.exc = SmartTagApiAuthError
               /\ Sent(c, Endpoint(c.op)) = 1

(* C4: whatever a call raises to its caller is a SmartTagApiError: the     *)
(* generic one or one of its two subclasses.                               *)
C4_ClosedTaxonomy ==
    \A p \in Procs :
        call[p].pc = "done" => (call[p].exc = NoExc \/ IsSmartTagApiError(call[p].exc))

(* C5: a login whose response has status 400 raises SmartTagApiAuthError   *)
(* and leaves the client with neither token, whatever it held before.      *)
C5_Login400ClearsTokens ==
    \A p \in Procs :
        LET c == call[p]
        IN  (/\ c.op = "login" /\ c.pc = "done"
             /\ c.resps[1].transport = "response" /\ c.resps[1].status = 400)
            => /\ c.exc = SmartTagApiAuthError
               /\ access_token = None
               /\ refresh_token = None

\* A login answered with 400 by a client that held both tokens.
C5_Witness ==
    \E p \in Procs :
        /\ call[p].op = "login" /\ call[p].pc = "done"
        /\ call[p].resps[1].transport = "response" /\ call[p].resps[1].status = 400
        /\ call[p].resps[1].body.token # Missing
        /\ call[p].pre.access # None /\ call[p].pre.refresh # None

(* C6: after a login that raised, whatever it raised, the client holds     *)
(* neither token.                                                          *)
C6_FailedLoginUnauthenticated ==
    \A p \in Procs :
        (call[p].op = "login" /\ call[p].pc = "done" /\ call[p].exc # NoExc)
        => (access_token = None /\ refresh_token = None)

(* C7: when the last successful login, with no login or refresh since,     *)
(* received token T, a get_students / get_rides call sends a request, and  *)
(* its first request carries "Authorization: Bearer T".                    *)
C7_BearerIsLoginToken ==
    \A p \in Procs :
        LET c == call[p]
        IN  (IsAuthed(c) /\ c.sawLogin # None)
            => /\ Len(c.reqs) >= 1
               /\ c.reqs[1].path = Endpoint(c.op)
               /\ c.reqs[1].headers = Bearer(c.sawLogin)

\* A first request sent after a login by a client constructed with another token.
C7_Witness ==
    \E p \in Procs :
        /\ IsAuthed(call[p]) /\ call[p].sawLogin = <<"t", "2">>
        /\ call[p].reqs # <<>>
        /\ call[p].pc = "done"

(* C8: get_students / get_rides without an access token, and               *)
(* refresh_access_token without either token, raise SmartTagApiAuthError,  *)
(* issue no request and change no token.                                   *)
C8_PreconditionsFailFast ==
    \A p \in Procs :
        LET c == call[p]
        IN  (\/ IsAuthed(c) /\ c.pre.access = None
             \/ c.op = "refresh_access_token"
                /\ (c.pre.access = None \/ c.pre.refresh = None))
            => /\ c.pc = "done"
               /\ c.exc = SmartTagApiAuthError
               /\ c.reqs = <<>>
               /\ Tokens = c.pre

\* refresh_access_token called with an access token and no refresh token.
C8_Witness ==
    \E p \in Procs :
        /\ call[p].op = "refresh_access_token" /\ call[p].pc = "done"
        /\ call[p].pre.access # None /\ call[p].pre.refresh = None

(* C9: one get_students / get_rides call issues at most three requests, at *)
(* most one of them a refresh and at most two the original; once a retry   *)
(* has failed the call has ended with that failure.                        *)
C9_AtMostOneRetry ==
    \A p \in Procs :
        LET c == call[p]
        IN  IsAuthed(c)
            => /\ Len(c.reqs) <= 3
               /\ Sent(c, "user/refresh") <= 1
               /\ Sent(c, Endpoint(c.op)) <= 2
               /\ \A i \in DOMAIN c.resps :
                    (i > 1 /\ c.reqs[i].path = Endpoint(c.op) /\ c.wrapped[i] # NoExc)
                    => (c.pc = "done" /\ c.exc = c.wrapped[i] /\ Len(c.reqs) = i)

\* A call that ended on a rejected first request.
C9_Witness ==
    \E p \in Procs :
        IsAuthed(call[p]) /\ call[p].pc = "done" /\ Rejected(call[p], 1)

(* C10: a first attempt of get_students / get_rides that times out or      *)
(* fails at the connection or DNS layer ends the call with                 *)
(* SmartTagApiNetworkError; a first attempt that _api_wrapper fails with   *)
(* the network or the generic error ends the call with that error after    *)
(* one request, without refresh, the tokens unchanged.                     *)
C10_OtherFailuresNotRetried ==
    \A p \in Procs :
        LET c == call[p]
        IN  (IsAuthed(c) /\ c.resps # <<>>)
            => /\ c.resps[1].transport \in {"TimeoutError", "ClientError", "gaierror"}
                    => c.wrapped[1] = SmartTagApiNetworkError
               /\ c.wrapped[1] \in {SmartTagApiNetworkError, SmartTagApiError}
                    => /\ c.pc = "done"
                       /\ c.exc = c.wrapped[1]
                       /\ Len(c.reqs) = 1
                       /\ c.refreshed = "none"
                       /\ Tokens = c.pre

\* A call whose first request timed out.
C10_Witness ==
    \E p \in Procs :
        /\ IsAuthed(call[p]) /\ call[p].pc = "done"
        /\ call[p].resps # <<>>
        /\ call[p].resps[1].transport = "TimeoutError"
        /\ call[p].pre.refresh # None

----------------------------------------------------------------------------
\* The first request of the call got a response, and its status is 2xx.
FirstIsSuccess(c) ==
    /\ c.resps # <<>>
    /\ c.resps[1].transport = "response"
    /\ c.resps[1].status \in 200..299

\* The first request of the call got a response, and its status is not a success.
FirstIsNonSuccess(c) ==
    /\ c.resps # <<>>
    /\ c.resps[1].transport = "response"
    /\ c.resps[1].status >= 400

(* C11: a token that login or refresh_access_token has stored was taken    *)
(* from a response with a 2xx status: a login that ends with a token held, *)
(* and a refresh that ends with a token changed, got a 2xx response.       *)
C11_TokensOnlyFromSuccess ==
    \A p \in Procs :
        LET c == call[p]
        IN  /\ (/\ c.op = "login" /\ c.pc = "done"
                /\ (access_token # None \/ refresh_token # None))
               => FirstIsSuccess(c)
            /\ (c.op = "refresh_access_token" /\ c.pc = "done" /\ Tokens # c.pre)
               => FirstIsSuccess(c)

(* C17: refresh_access_token, called with both tokens held, raises         *)
(* SmartTagApiAuthError for every non-success response to its request.     *)
C17_RefreshNonSuccessIsAuthError ==
    \A p \in Procs :
        LET c == call[p]
        IN  (c.op = "refresh_access_token" /\ FirstIsNonSuccess(c))
            => (c.pc = "done" /\ c.exc = SmartTagApiAuthError)

\* What a login that receives outcome o leaves: it has cleared both tokens first.
AfterLogin(o) ==
    [access |-> LoginFinish(o, None, None).access,
     refresh |-> LoginFinish(o, None, None).refresh]

\* A refresh_access_token call that returned.
RefreshReturned(c) ==
    c.op = "refresh_access_token" /\ c.pc = "done" /\ c.exc = NoExc

(* C18 as stated: a refresh_access_token that returned leaves the token    *)
(* pair that a login receiving the same response leaves.                   *)
C18_RefreshStoresAsLogin ==
    \A p \in Procs :
        RefreshReturned(call[p]) => Tokens = AfterLogin(call[p].resps[1])

(* C18 as amended: a refresh_access_token that returned leaves the token   *)
(* of the response body as access token; as refresh token it leaves what a *)
(* login receiving the same response leaves when the response carries the  *)
(* refreshToken cookie, and the refresh token held before the call when    *)
(* the server omits the cookie.                                            *)
C18_RefreshStoresTokens ==
    \A p \in Procs :
        LET c == call[p]
        IN  RefreshReturned(c)
            => /\ access_token = c.resps[1].body.token
               /\ access_token = AfterLogin(c.resps[1]).access
               /\ refresh_token = IF c.resps[1].cookie # None
                                  THEN AfterLogin(c.resps[1]).refresh
                                  ELSE c.pre.refresh

\* A refresh that returned on a response without the cookie.
C18_Witness ==
    \E p \in Procs :
        /\ RefreshReturned(call[p])
        /\ call[p].resps[1].cookie = None
        /\ refresh_token = <<"r", "/">>

(* C19: a get_students / get_rides call that makes no refresh leaves both  *)
(* tokens as they were, whether it returns or raises; so does a            *)
(* refresh_access_token that fails on its precondition, on a non-success   *)
(* response or on a network error.                                         *)
C19_TokensFrame ==
    \A p \in Procs :
        LET c == call[p]
        IN  /\ (IsAuthed(c) /\ c.refreshed = "none") => Tokens = c.pre
            /\ (/\ c.op = "refresh_access_token" /\ c.pc = "done" /\ c.exc # NoExc
                /\ \/ c.reqs = <<>>
                   \/ FirstIsNonSuccess(c)
                   \/ c.resps[1].transport \in {"TimeoutError", "ClientError", "gaierror"})
               => Tokens = c.pre

\* A refresh that failed on a 404 whose body and cookie carried tokens.
C19_Witness ==
    \E p \in Procs :
        /\ call[p].op = "refresh_access_token" /\ call[p].pc = "done"
        /\ FirstIsNonSuccess(call[p])
        /\ call[p].resps[1].status = 404
        /\ call[p].resps[1].body.token # Missing
        /\ call[p].resps[1].cookie # None

----------------------------------------------------------------------------
\* The Authorization header that goes with the token the client stores now.
StoredBearer == IF access_token = None THEN None ELSE Bearer(access_token)

\* The original request of get call p is in flight with a bearer token that is
\* not the token the client stores.
StaleBearer(p) ==
    /\ IsAuthed(call[p])
    /\ call[p].pc \in {"await_first", "await_retry"}
    /\ call[p].reqs[Len(call[p].reqs)].headers # StoredBearer

\* Get call p failed "not authenticated" while a login that had found an
\* access token, and cleared it, is waiting for its response.
ClearedByLogin(p) ==
    /\ IsAuthed(call[p])
    /\ call[p].pc = "done"
    /\ call[p].exc = SmartTagApiAuthError
    /\ call[p].reqs = <<>>
    /\ \E q \in Procs \ {p} :
         /\ call[q].op = "login"
         /\ call[q].pc = "await_login"
         /\ call[q].pre.access # None

(* C12: when the calls on the client instance are serialized, no get call  *)
(* has a request in flight that bears a token other than the stored one,   *)
(* and none fails "not authenticated" because of a login in progress; when *)
(* a login and a get call interleave, such states are reached (the         *)
(* witnesses), every response of the server being a success.               *)
C12_SerializedNoRace ==
    serialized => \A p \in Procs : ~StaleBearer(p) /\ ~ClearedByLogin(p)

\* Interleaved: a get request is in flight with the token that a login, started
\* after it, has cleared.
C12_Witness ==
    /\ ~serialized
    /\ \E p \in Procs :
         /\ StaleBearer(p)
         /\ \E q \in Procs : call[q].op = "login" /\ call[q].pc = "await_login"

\* Interleaved: a get call started during a login fails "not authenticated".
C12_WitnessNotAuthenticated ==
    ~serialized /\ \E p \in Procs : ClearedByLogin(p)

----------------------------------------------------------------------------
(* Vocabulary of the properties of the aggregator.                         *)

\* The step has shown its form: the grouping and the averaging are done.
Shown == flowPc = "form"

\* The indexes of the fetched rides of one route.
GroupOf(id) == {i \in DOMAIN rides : rides[i].route_id = id}

SetMin(S) == CHOOSE x \in S : \A y \in S : x <= y
SetMax(S) == CHOOSE x \in S : \A y \in S : x >= y

RECURSIVE SetSum(_)
SetSum(S) == IF S = {} THEN 0 ELSE LET x == CHOOSE y \in S : TRUE
                                   IN  x.v + SetSum(S \ {x})

\* C13: after aggregation every window belongs to a non-empty group of the
\* fetched rides; its embark_start is the least start time of day of the
\* group, its embark_end the greatest time of day of start + 5 minutes, its
\* debark_end the greatest time of day of end + 10 minutes, so each ride of
\* the group lies within them, and a single ride gives exactly its own times.
C13_WindowBounds ==
    Shown =>
        \A k \in DOMAIN avg_routes :
            LET w == avg_routes[k]
                G == GroupOf(w.id)
            IN  /\ G # {}
                /\ w.embark_start = SetMin({rides[i].start % 86400 : i \in G})
                /\ w.embark_end = SetMax({(rides[i].start + 5 * 60) % 86400 : i \in G})
                /\ w.debark_end = SetMax({(rides[i].end + 10 * 60) % 86400 : i \in G})
                /\ \A i \in G :
                      /\ w.embark_start <= rides[i].start % 86400
                      /\ w.embark_end >= (rides[i].start + 5 * 60) % 86400
                      /\ w.debark_end >= (rides[i].end + 10 * 60) % 86400
                      /\ G = {i} =>
                            /\ w.embark_start = rides[i].start % 86400
                            /\ w.embark_end = (rides[i].start + 5 * 60) % 86400
                            /\ w.debark_end = (rides[i].end + 10 * 60) % 86400

\* A form with a window of one ride and a window of two rides that start at
\* different times of day.
C13_Witness ==
    /\ Shown
    /\ \E k, l \in DOMAIN avg_routes :
          /\ Cardinality(GroupOf(avg_routes[k].id)) = 1
          /\ \E i, j \in GroupOf(avg_routes[l].id) :
                rides[i].start % 86400 < rides[j].start % 86400

\* The sum of end - start, in seconds, over the rides of a group.
TotalSeconds(G) == SetSum({[i |-> i, v |-> rides[i].end - rides[i].start] : i \in G})

\* C14: the length of every window, in minutes, is the arithmetic mean of
\* end - start over the rides of its group: length * 60 * (number of rides)
\* equals the sum of the durations in seconds.
C14_LengthIsMean ==
    Shown =>
        \A k \in DOMAIN avg_routes :
            LET w == avg_routes[k]
                G == GroupOf(w.id)
            IN  w.length.num * 60 * Cardinality(G) = TotalSeconds(G) * w.length.den

\* The rides of a route, in the order they were fetched.
RidesOfRoute(id) == SelectSeq(rides, LAMBDA r : r.route_id = id)

\* C15: the form has exactly one window per route id among the fetched
\* rides; every ride is in exactly one group, the one of its route id, no
\* group holds a ride of another route, each window is computed from its
\* group, and no rides (the fetch failed, or returned none) give no windows.
C15_OneWindowPerRoute ==
    Shown =>
        /\ Len(avg_routes) = Cardinality({rides[i].route_id : i \in DOMAIN rides})
        /\ Len(routes) = Len(avg_routes)
        /\ \A i \in DOMAIN rides :
              Cardinality({k \in DOMAIN avg_routes :
                              avg_routes[k].id = rides[i].route_id}) = 1
        /\ \A k \in DOMAIN routes :
              /\ avg_routes[k].id = routes[k].key
              /\ routes[k].value = RidesOfRoute(routes[k].key)
              /\ avg_routes[k] = average_route_polling_data(routes[k].value)
        /\ rides = <<>> => avg_routes = <<>>
        /\ errors_base # "none" => avg_routes = <<>>

\* A form with two windows, one of them of two rides, the rides of the two
\* routes interleaved.
C15_Witness ==
    /\ Shown
    /\ Len(avg_routes) = 2
    /\ Len(rides) = 3
    /\ rides[1].route_id = rides[3].route_id
    /\ rides[2].route_id # rides[1].route_id

\* A form shown after get_rides failed: no rides, no windows.
C15_WitnessFailedFetch ==
    /\ Shown
    /\ errors_base = "connection"
    /\ avg_routes = <<>>

\* The fetched rides in another order.
Permuted(q) == [i \in DOMAIN rides |-> rides[q[i]]]

\* The windows the step computes from a ride list, as a set.
WindowsOf(rs) ==
    LET avg == AverageRoutes(GroupRides(rs))
    IN  {avg[k] : k \in DOMAIN avg}

\* Rides of one route carry one route name.
NamesAgree == \A i, j \in DOMAIN rides :
                 rides[i].route_id = rides[j].route_id
                    => rides[i].route_name = rides[j].route_name

\* C16 as stated: whatever the fetched rides, every permutation of them
\* gives the same windows (id, name, embark_start, embark_end, debark_end
\* and length per route) as the form shows.
C16_OrderIndependent ==
    Shown =>
        \A q \in Permutations(DOMAIN rides) :
            WindowsOf(Permuted(q)) = {avg_routes[k] : k \in DOMAIN avg_routes}

\* C16 amended: when the rides of each route carry one route name, every
\* permutation of the fetched rides gives the same windows as the form shows.
C16_OrderIndependentNames ==
    (Shown /\ NamesAgree) =>
        \A q \in Permutations(DOMAIN rides) :
            WindowsOf(Permuted(q)) = {avg_routes[k] : k \in DOMAIN avg_routes}

\* A form over three rides of two routes, names agreeing, the rides of one
\* route differing in start, end and duration.
C16_Witness ==
    /\ Shown
    /\ NamesAgree
    /\ Len(rides) = 3
    /\ Len(avg_routes) = 2
    /\ \E i, j \in DOMAIN rides :
          /\ rides[i].route_id = rides[j].route_id
          /\ rides[i].start % 86400 # rides[j].start % 86400
          /\ rides[i].end - rides[i].start # rides[j].end - rides[j].start

\* C20: no window is inverted: its embark_start is not after its embark_end,
\* and its embark_end is later than the start time of day of every ride of
\* its group, also when start + 5 minutes is past midnight.
C20_WindowNotInverted ==
    Shown =>
        \A k \in DOMAIN avg_routes :
            LET w == avg_routes[k]
            IN  /\ w.embark_start <= w.embark_end
                /\ \A i \in GroupOf(w.id) : w.embark_end > rides[i].start % 86400

----------------------------------------------------------------------------
\* The last response the call has received.
LastResponse(c) == c.resps[Len(c.resps)]

\* C21: a get_students / get_rides call that returns a result has received,
\* as its last response, one with a 2xx status; after any other last
\* response, 400 and 404 included, the call raises.
C21_ResultOnlyOnSuccess ==
    \A p \in Procs :
        (IsAuthed(call[p]) /\ call[p].pc = "done" /\ call[p].exc = NoExc) =>
            /\ call[p].resps # <<>>
            /\ LastResponse(call[p]).transport = "response"
            /\ LastResponse(call[p]).status \in 200..299

----------------------------------------------------------------------------
(* Vocabulary of the properties of the configuration flow.                 *)

\* The login the user step awaits has ended, and the step has not gone on.
LoginJustEnded ==
    /\ flowPc = "await_login"
    /\ call[FlowProc].op = "login"
    /\ call[FlowProc].pc = "done"

\* This step of the flow enters async_step_choose_student.
EntersChooseStudent ==
    /\ flowPc # "await_students"
    /\ \/ flowPc' = "await_students"
       \/ shown.step_id # "choose_student" /\ shown'.step_id = "choose_student"

\* The user step goes on after the login it awaited.
UserStepGoesOn == LoginJustEnded /\ flowPc' # flowPc

\* The credentials form is open, after a login that failed.
UserFormWithError ==
    /\ flowPc = "form"
    /\ shown.step_id = "user"
    /\ shown.base \in {"auth", "connection", "unknown"}

\* C22: the flow enters the step choose_student only in going on after a
\* login that ended without exception; going on after a login that raised
\* SmartTagApiAuthError, SmartTagApiNetworkError or SmartTagApiError it shows
\* the form of the step user with the error "auth", "connection" or
\* "unknown"; the client it has made stays the flow's client, and with the
\* form open after a failure the user can submit again.
C22_UserStepAdvancesOnlyAfterLogin ==
    /\ [][/\ EntersChooseStudent => (LoginJustEnded /\ call[FlowProc].exc = NoExc)
          /\ (UserStepGoesOn /\ call[FlowProc].exc = SmartTagApiAuthError)
                => (flowPc' = "form" /\ shown' = Form("user", "auth"))
          /\ (UserStepGoesOn /\ call[FlowProc].exc = SmartTagApiNetworkError)
                => (flowPc' = "form" /\ shown' = Form("user", "connection"))
          /\ (UserStepGoesOn /\ call[FlowProc].exc = SmartTagApiError)
                => (flowPc' = "form" /\ shown' = Form("user", "unknown"))
          /\ api_client # 0 => api_client' = api_client]_vars
    /\ [](UserFormWithError => ENABLED FlowUserSubmit)

\* After a login that failed and the form with the error "auth", a second
\* login with the same client has succeeded: the flow awaits get_students
\* with the token of that login.
C22_Witness ==
    /\ flowPc = "await_students"
    /\ shown = Form("user", "auth")
    /\ api_client = 1
    /\ access_token \in ServerTokens

====
